---- MODULE Spec2Model ----
(***************************************************************************)
(* IOM DTM scraper: the p-code matcher (Dtm.get_admin_info), the HAPI      *)
(* dataset generation of Dtm and of Pipeline (duplicate detection,         *)
(* aggregation, output rows, time period), the download of the countries'  *)
(* observations (get_country_data, generate_dataset) and the loop of main. *)
(*                                                                         *)
(* Python values: None is the string "None"; p-codes, names and warnings   *)
(* are strings; a dict is a function and dict.get is DictGet.              *)
(***************************************************************************)
EXTENDS Integers, Sequences, FiniteSets, TLC

VARIABLES
    cls,          \* the class of the object: "Dtm" (dtm.py) or "Pipeline" (pipeline.py)
    _admins,      \* self._admins: the gazetteers appended by get_pcodes
    call,         \* the last get_admin_info call: arguments and what it did
    global_data,  \* Dtm.global_data, Pipeline._global_data: the observations
                  \* of the last multi-country generate_dataset
    hapi,         \* what generate_hapi_dataset made of global_data
    api,          \* what the DTM API and HDX answer during the run
    dataset,      \* the last generate_dataset call: arguments and what it did
    main          \* main: the country lists still to do and the calls made

vars == <<cls, _admins, call, global_data, hapi, api, dataset, main>>

None == "None"

\* Python truthiness of an Optional[str]: None and "" are falsy.
Falsy(v) == v = None \/ v = ""

DictGet(d, k) == IF k \in DOMAIN d THEN d[k] ELSE None

\* Python list indexing, 0-based, a negative index counting from the end.
PyIndex(list, i) == IF i >= 0 THEN list[i + 1] ELSE list[Len(list) + i + 1]

(***************************************************************************)
(* The gazetteer (hdx.location.adminlevel.AdminLevel), one object per      *)
(* admin level holding the p-codes of every country.                       *)
(***************************************************************************)
Admin1Rows ==
    << [iso3 |-> "HTI", pcode |-> "HT01", name |-> "Ouest", parent |-> "HTI"],
       [iso3 |-> "HTI", pcode |-> "HT02", name |-> "Nord", parent |-> "HTI"],
       [iso3 |-> "AFG", pcode |-> "AF01", name |-> "Kabul", parent |-> "AFG"] >>

Admin2Rows ==
    << [iso3 |-> "HTI", pcode |-> "HT0101", name |-> "Delmas", parent |-> "HT01"],
       [iso3 |-> "HTI", pcode |-> "HT0102", name |-> "Centre", parent |-> "HT01"],
       [iso3 |-> "HTI", pcode |-> "HT0201", name |-> "Centre", parent |-> "HT02"],
       [iso3 |-> "AFG", pcode |-> "AF0101", name |-> "Paghman", parent |-> "AF01"] >>

Countries == {"HTI", "AFG"}

Iso2(iso3) == IF iso3 = "HTI" THEN "HT" ELSE "AF"

\* str.lower on the names in use.
Lower(s) ==
    CASE s = "Ouest" -> "ouest"
      [] s = "Nord" -> "nord"
      [] s = "Kabul" -> "kabul"
      [] s = "Delmas" -> "delmas"
      [] s = "Centre" -> "centre"
      [] s = "CENTRE" -> "centre"
      [] s = "Paghman" -> "paghman"
      [] s = "Nowhere" -> "nowhere"
      [] s = "HTI" -> "hti"
      [] s = "AFG" -> "afg"
      [] OTHER -> s

RowIndexOf(rows, p) == CHOOSE i \in 1..Len(rows) : rows[i].pcode = p

\* AdminLevel(admin_level=...) after setup_from_libhxl_dataset and
\* load_pcode_formats.
AdminLevel(admin_level) ==
    LET rows == IF admin_level = 1 THEN Admin1Rows ELSE Admin2Rows
        codes == {rows[i].pcode : i \in 1..Len(rows)}
    IN [admin_level |-> admin_level,
        rows |-> rows,
        pcodes |-> codes,
        pcode_to_name |-> [p \in codes |-> rows[RowIndexOf(rows, p)].name],
        pcode_to_parent |-> [p \in codes |-> rows[RowIndexOf(rows, p)].parent],
        pcode_to_iso3 |-> [p \in codes |-> rows[RowIndexOf(rows, p)].iso3],
        use_parent |-> admin_level = 2]

\* name_to_pcode[iso3] (parent = None) or name_parent_to_pcode[iso3][parent]:
\* the rows a name is looked up in; a later row overwrites an earlier one of
\* the same name.
NameRows(admin, iso3, parent) ==
    {i \in 1..Len(admin.rows) :
        /\ admin.rows[i].iso3 = iso3
        /\ parent # None => admin.rows[i].parent = parent}

\* AdminLevel.get_pcode(iso3, name, parent=...) as [value, raised]: the
\* p-code of the entry of the country (under parent, when the level knows
\* parents) whose lower-cased name is name.lower(). A name of None has no
\* lower(): AttributeError. Fuzzy matching is left out.
get_pcode(admin, iso3, name, parent) ==
    LET scope == IF admin.use_parent /\ ~Falsy(parent) THEN parent ELSE None
        table == NameRows(admin, iso3, scope)
        hits == {i \in table : Lower(admin.rows[i].name) = Lower(name)}
    IN IF table = {} THEN [value |-> None, raised |-> None]
       ELSE IF name = None THEN [value |-> None, raised |-> "AttributeError"]
       ELSE IF hits = {} THEN [value |-> None, raised |-> None]
       ELSE [value |-> admin.rows[CHOOSE i \in hits : \A j \in hits : j <= i].pcode,
             raised |-> None]

Letters == {"A", "F", "G", "H", "I", "T", "X"}

RECURSIVE LeadLetters(_)
LeadLetters(s) ==
    IF s # "" /\ Head(s) \in Letters THEN 1 + LeadLetters(Tail(s)) ELSE 0

\* The digits an admin level takes in a p-code, after the 2-letter country
\* prefix (load_pcode_formats): 2 per level.
DigitsPerLevel == 2

\* AdminLevel.convert_admin_pcode_length(iso3, pcode, parent=...) as
\* [value, raised]. A 3-letter prefix becomes the country's 2-letter one, a
\* short admin part is padded with a zero; the result counts only when it is
\* in pcodes. The IndexError the caller guards against stands on a code with
\* more digits than the format holds.
convert_admin_pcode_length(admin, iso3, pcode, parent) ==
    LET nletters == LeadLetters(pcode)
        digits == SubSeq(pcode, nletters + 1, Len(pcode))
        prefix == IF nletters = 3 THEN Iso2(iso3) ELSE SubSeq(pcode, 1, nletters)
        total == DigitsPerLevel * admin.admin_level
        new_pcode == prefix \o digits
        padded1 == prefix \o "0" \o digits
        padded2 == IF Len(digits) >= DigitsPerLevel
                   THEN prefix \o SubSeq(digits, 1, DigitsPerLevel) \o "0"
                            \o SubSeq(digits, DigitsPerLevel + 1, Len(digits))
                   ELSE padded1
        under(p) == Falsy(parent) \/ admin.admin_level = 1
                        \/ DictGet(admin.pcode_to_parent, p) = parent
    IN IF nletters \notin {2, 3} \/ digits = ""
       THEN [value |-> None, raised |-> None]
       ELSE IF new_pcode \in admin.pcodes
       THEN [value |-> new_pcode, raised |-> None]
       ELSE IF Len(digits) > total
       THEN [value |-> None, raised |-> "IndexError"]
       ELSE IF Len(digits) = total - 1 /\ padded1 \in admin.pcodes /\ under(padded1)
       THEN [value |-> padded1, raised |-> None]
       ELSE IF Len(digits) = total - 1 /\ padded2 \in admin.pcodes /\ under(padded2)
       THEN [value |-> padded2, raised |-> None]
       ELSE [value |-> None, raised |-> None]

(***************************************************************************)
(* Dtm.get_admin_info                                                      *)
(***************************************************************************)
EmptyAdminInfo ==
    [admin2_code |-> None, admin2_name |-> None,
     admin1_code |-> None, admin1_name |-> None]

\* error_handler.add_missing_value_message("DTM", dataset_name,
\*     f"admin {admin_level} pcode", pcode)
MissingValueMessage(a, pcode) ==
    [category |-> "DTM", dataset_name |-> a.dataset_name,
     value_type |-> "admin " \o ToString(a.admin_level) \o " pcode",
     value |-> pcode]

\* What one call did: the returned (admin_info, warning), the messages it
\* registered with the error handler, the exception that left it (None when
\* it returned), the stages it went through and its outcome.
Returned(admin_info, warning, messages, stages, outcome) ==
    [admin_info |-> admin_info, warning |-> warning, messages |-> messages,
     raised |-> None, stages |-> stages, outcome |-> outcome]

Raised(exception, messages, stages) ==
    [admin_info |-> None, warning |-> None, messages |-> messages,
     raised |-> exception, stages |-> stages, outcome |-> "Raised"]

\* The parent of a level-2 code left unset.
FillAdminInfo_NoParent(admins, admin_level, pcode) ==
    LET name == DictGet(PyIndex(admins, admin_level - 1).pcode_to_name, pcode)
    IN IF admin_level = 2
       THEN [admin2_code |-> pcode, admin2_name |-> name,
             admin1_code |-> None, admin1_name |-> None]
       ELSE [admin2_code |-> None, admin2_name |-> None,
             admin1_code |-> pcode, admin1_name |-> name]

\* Lines 251-259: the resolved code, its name and, at level 2, its parent.
FillAdminInfo(admins, admin_level, pcode) ==
    LET name == DictGet(PyIndex(admins, admin_level - 1).pcode_to_name, pcode)
        admin1_code == DictGet(PyIndex(admins, 1).pcode_to_parent, pcode)
    IN IF admin_level = 2
       THEN [admin2_code |-> pcode, admin2_name |-> name,
             admin1_code |-> admin1_code,
             admin1_name |-> DictGet(PyIndex(admins, 0).pcode_to_name, admin1_code)]
       ELSE [admin2_code |-> None, admin2_name |-> None,
             admin1_code |-> pcode, admin1_name |-> name]

\* "if pcode is None" in place of "if not pcode".
IsMissing_NoneOnly(pcode) == pcode = None

\* Line 203: "if not pcode".
IsMissing(pcode) == Falsy(pcode)

\* The warning left unset on a fallback match.
MatchWarning_Unset(pcode, matched_pcode) == None

\* The warning formatted after pcode was overwritten by the matched code.
MatchWarning_AfterOverwrite(pcode, matched_pcode) ==
    "Pcode unknown " \o matched_pcode \o "->" \o matched_pcode

\* Lines 221 and 239: the warning of a fallback match, formatted before pcode
\* is overwritten by the matched code.
MatchWarning(pcode, matched_pcode) ==
    "Pcode unknown " \o pcode \o "->" \o matched_pcode

\* Lines 213-219: the length conversion, IndexError caught as no match.
MatchByLength(admins, a) ==
    LET conv == convert_admin_pcode_length(PyIndex(admins, a.admin_level - 1),
                                           a.iso, a.pcode, a.parent_pcode)
    IN IF conv.raised = "IndexError" THEN [value |-> None, raised |-> None]
       ELSE conv

\* The parent name ignored: the supplied parent code is searched under.
ParentForNameLookup_Supplied(admins, a) ==
    [value |-> a.parent_pcode, raised |-> None]

\* Lines 231-234: the parent code the name lookup uses.
ParentForNameLookup(admins, a) ==
    IF ~Falsy(a.parent_name)
    THEN get_pcode(PyIndex(admins, a.admin_level - 2), a.iso, a.parent_name, None)
    ELSE [value |-> a.parent_pcode, raised |-> None]

NameStages == <<"direct", "length", "name">>

\* The "return" of line 249 missing: the unknown code is filled in.
Unresolved_FallsThrough(admins, a, messages) ==
    Returned(FillAdminInfo(admins, a.admin_level, a.pcode),
             "Pcode unknown " \o a.pcode,
             messages \o <<MissingValueMessage(a, a.pcode)>>,
             NameStages, "Unresolved")

\* Lines 241-249: the name lookup found nothing either.
Unresolved(admins, a, messages) ==
    Returned(EmptyAdminInfo, "Pcode unknown " \o a.pcode,
             messages \o <<MissingValueMessage(a, a.pcode)>>,
             NameStages, "Unresolved")

\* Lines 223-249: the length conversion found nothing.
MatchByName(admins, a) ==
    LET first == <<MissingValueMessage(a, a.pcode)>>
        stages == NameStages
        parent == ParentForNameLookup(admins, a)
        found == get_pcode(PyIndex(admins, a.admin_level - 1), a.iso,
                           a.admin_name, parent.value)
    IN IF parent.raised # None THEN Raised(parent.raised, first, stages)
       ELSE IF found.raised # None THEN Raised(found.raised, first, stages)
       ELSE IF ~Falsy(found.value)
       THEN Returned(FillAdminInfo(admins, a.admin_level, found.value),
                     MatchWarning(a.pcode, found.value),
                     first, stages, "NameMatch")
       ELSE Unresolved(admins, a, first)

\* Lines 185-259.
get_admin_info(admins, a) ==
    IF IsMissing(a.pcode)
    THEN Returned(EmptyAdminInfo, "Missing pcode",
                  <<MissingValueMessage(a, a.pcode)>>, <<>>, "Missing")
    ELSE IF a.pcode \in PyIndex(admins, a.admin_level - 1).pcodes
    THEN Returned(FillAdminInfo(admins, a.admin_level, a.pcode), None, <<>>,
                  <<"direct">>, "DirectHit")
    ELSE LET matched == MatchByLength(admins, a)
         IN IF matched.raised # None
            THEN Raised(matched.raised, <<>>, <<"direct", "length">>)
            ELSE IF ~Falsy(matched.value)
            THEN Returned(FillAdminInfo(admins, a.admin_level, matched.value),
                          MatchWarning(a.pcode, matched.value),
                          <<>>, <<"direct", "length">>, "LengthMatch")
            ELSE MatchByName(admins, a)

(***************************************************************************)
(* The values the provider sends.                                          *)
(***************************************************************************)
ProviderPcodes ==
    {None, "", "HT01", "AF01", "HTI01", "HT1", "HT99",
     "HT0101", "HT101", "HT012", "HT010101"}

ProviderNames == {None, "", "Ouest", "CENTRE", "Nowhere"}

ParentPcodes == {None, "HT01"}

ParentNames == {None, "Nord", "Nowhere"}

DatasetName == "global-iom-dtm-from-api"

\* Lines 343-353: the arguments generate_hapi_dataset hands to
\* get_admin_info for a row of admin level 1 or 2.
CallArgs ==
    {[dataset_name |-> DatasetName, iso |-> iso, admin_level |-> 1,
      pcode |-> p, admin_name |-> n, parent_pcode |-> None, parent_name |-> None] :
        iso \in Countries, p \in ProviderPcodes, n \in ProviderNames}
    \cup
    {[dataset_name |-> DatasetName, iso |-> iso, admin_level |-> 2,
      pcode |-> p, admin_name |-> n, parent_pcode |-> pp, parent_name |-> pn] :
        iso \in Countries, p \in ProviderPcodes, n \in ProviderNames,
        pp \in ParentPcodes, pn \in ParentNames}

\* How often get_pcodes runs on one object.
MaxPcodeLoads == 2

NoCall == [made |-> FALSE]

\* Lines 363-367: the row's admin fields and warning after the call.
RowAfter(result) ==
    IF result.raised # None THEN None
    ELSE [admin1_code |-> result.admin_info.admin1_code,
          admin1_name |-> result.admin_info.admin1_name,
          admin2_code |-> result.admin_info.admin2_code,
          admin2_name |-> result.admin_info.admin2_name,
          warning |-> result.warning]

(***************************************************************************)
(* Observations: the rows of the DTM API after get_country_data.           *)
(***************************************************************************)
BaseObservation ==
    [admin0Pcode |-> "HTI", admin0Name |-> "Haiti",
     admin1Pcode |-> None, admin1Name |-> None,
     admin2Pcode |-> None, admin2Name |-> None,
     adminLevel |-> 0, roundNumber |-> 1, assessmentType |-> "BA",
     operation |-> "Earthquake", operationStatus |-> "Active",
     reportingDate |-> "2024-01-01", numPresentIdpInd |-> 5,
     displacementReason |-> "Conflict",
     idpOriginAdmin1Name |-> None, idpOriginAdmin1Pcode |-> None]

Observations ==
    { BaseObservation,
      [BaseObservation EXCEPT !.numPresentIdpInd = 3],
      [BaseObservation EXCEPT !.displacementReason = "Disaster"],
      [BaseObservation EXCEPT !.reportingDate = "2024-01-02"],
      [BaseObservation EXCEPT !.adminLevel = 1, !.admin1Pcode = "HT01",
                              !.admin1Name = "Ouest"],
      [BaseObservation EXCEPT !.adminLevel = 1, !.admin1Pcode = "HT99"],
      [BaseObservation EXCEPT !.adminLevel = 2, !.admin1Pcode = "HT01",
                              !.admin1Name = "Ouest", !.admin2Pcode = "",
                              !.admin2Name = "Foo"],
      [BaseObservation EXCEPT !.adminLevel = 2, !.admin1Pcode = "HT01",
                              !.admin1Name = "Ouest",
                              !.admin2Name = "Delmas"] }

\* The most observations one generate_dataset call collects.
MaxRows == 2

ObservationLists == UNION {[1..n -> Observations] : n \in 0..MaxRows}

\* The observations of one operation in one country: two that differ in the
\* number of people only, one with another displacement reason, and one of
\* an admin-1 unit on the next day.
OperationObservations ==
    { BaseObservation,
      [BaseObservation EXCEPT !.numPresentIdpInd = 3],
      [BaseObservation EXCEPT !.displacementReason = "Disaster"],
      [BaseObservation EXCEPT !.adminLevel = 1, !.admin1Pcode = "HT01",
                              !.admin1Name = "Ouest",
                              !.reportingDate = "2024-01-02"] }

\* The most observations of one operation a generate_dataset call collects.
MaxOperationRows == 3

OperationObservationLists ==
    UNION {[1..n -> OperationObservations] : n \in 0..MaxOperationRows}

\* The country lists generate_dataset is called with (main): all the
\* countries, or one of them.
CountryLists == {<<"HTI", "AFG">>, <<"HTI">>}

(***************************************************************************)
(* Duplicate detection of generate_hapi_dataset.                           *)
(***************************************************************************)
\* dtm.py lines 289-305: the subset's admin2Pcode column, overwritten with
\* admin1Pcode on level-1 rows and with location_code on level-0 rows.
DtmKeyCode(row) ==
    IF row.adminLevel = 0 THEN row.admin0Pcode
    ELSE IF row.adminLevel = 1 THEN row.admin1Pcode
    ELSE row.admin2Pcode

\* pipeline.py lines 225-230: the subset's admin2Pcode column, filled with
\* admin1Pcode where it is NaN and then with admin0Pcode where still NaN.
PipelineKeyCode(row) ==
    IF row.admin2Pcode # None THEN row.admin2Pcode
    ELSE IF row.admin1Pcode # None THEN row.admin1Pcode
    ELSE row.admin0Pcode

\* dtm.py lines 289-299: the columns duplicates are looked for in.
DtmDedupKey(row) ==
    <<DtmKeyCode(row), row.admin1Name, row.admin2Name, row.roundNumber,
      row.assessmentType, row.operation, row.reportingDate>>

\* The columns of lines 211-224 without reportingDate.
PipelineDedupKey_NoDate(row) ==
    <<PipelineKeyCode(row), row.admin1Name, row.admin2Name, row.roundNumber,
      row.displacementReason, row.idpOriginAdmin1Name,
      row.idpOriginAdmin1Pcode, row.assessmentType, row.operation>>

\* pipeline.py lines 211-224.
PipelineDedupKey(row) ==
    <<PipelineKeyCode(row), row.admin1Name, row.admin2Name, row.roundNumber,
      row.displacementReason, row.idpOriginAdmin1Name,
      row.idpOriginAdmin1Pcode, row.assessmentType, row.operation,
      row.reportingDate>>

\* subset.duplicated(): keep="first", a row is marked when an earlier row has
\* the same values.
Duplicated_KeepFirst(keys) ==
    [i \in DOMAIN keys |-> \E j \in DOMAIN keys : j < i /\ keys[j] = keys[i]]

\* subset.duplicated(keep="last"): a row is marked when a later row has the
\* same values.
Duplicated_KeepLast(keys) ==
    [i \in DOMAIN keys |-> \E j \in DOMAIN keys : j > i /\ keys[j] = keys[i]]

\* subset.duplicated(keep=False): a row is marked when another row has the
\* same values.
Duplicated(keys) ==
    [i \in DOMAIN keys |-> \E j \in DOMAIN keys : j # i /\ keys[j] = keys[i]]

\* global_data["error"] = None; global_data.loc[duplicates, "error"] = ...
ErrorColumn(duplicates) ==
    [i \in DOMAIN duplicates |-> IF duplicates[i] THEN "Duplicate row" ELSE None]

NumberOf(duplicates) == Cardinality({i \in DOMAIN duplicates : duplicates[i]})

(***************************************************************************)
(* Dtm.generate_hapi_dataset                                               *)
(***************************************************************************)
\* dtm.py lines 343-362: the call generate_hapi_dataset makes for a row.
ArgsOfRow(dataset_name, row) ==
    [dataset_name |-> dataset_name, iso |-> row.admin0Pcode,
     admin_level |-> row.adminLevel,
     pcode |-> IF row.adminLevel = 1 THEN row.admin1Pcode ELSE row.admin2Pcode,
     admin_name |-> IF row.adminLevel = 1 THEN row.admin1Name ELSE row.admin2Name,
     parent_pcode |-> IF row.adminLevel = 2 THEN row.admin1Pcode ELSE None,
     parent_name |-> IF row.adminLevel = 2 THEN row.admin1Name ELSE None]

\* The loop without lines 345-346.
DtmRowResult_NoBypass(admins, dataset_name, row) ==
    get_admin_info(admins, ArgsOfRow(dataset_name, row))

\* dtm.py lines 328-367: what the loop does to one row; level-0 rows keep
\* the None the columns were created with.
DtmRowResult(admins, dataset_name, row) ==
    IF row.adminLevel = 0
    THEN Returned(EmptyAdminInfo, None, <<>>, <<>>, "Level0")
    ELSE get_admin_info(admins, ArgsOfRow(dataset_name, row))

\* dtm.py lines 271-286 and 317-367: a row of the HAPI resource.
DtmHapiRow(row, error, result) ==
    [location_code |-> row.admin0Pcode,
     provider_admin1_name |-> row.admin1Name,
     provider_admin2_name |-> row.admin2Name,
     admin_level |-> row.adminLevel,
     admin1_code |-> result.admin_info.admin1_code,
     admin1_name |-> result.admin_info.admin1_name,
     admin2_code |-> result.admin_info.admin2_code,
     admin2_name |-> result.admin_info.admin2_name,
     operation |-> row.operation,
     assessment_type |-> row.assessmentType,
     reporting_round |-> row.roundNumber,
     population |-> row.numPresentIdpInd,
     reference_period_start |-> row.reportingDate,
     reference_period_end |-> row.reportingDate,
     warning |-> result.warning,
     error |-> error]

RECURSIVE Flatten(_)
Flatten(lists) ==
    IF lists = <<>> THEN <<>> ELSE Head(lists) \o Flatten(Tail(lists))

\* dtm.py lines 261-390, after get_pcodes: admins is self._admins with the
\* two gazetteers appended.
DtmGenerateHapi(admins, dataset_name, data) ==
    LET subset == [i \in DOMAIN data |-> DtmDedupKey(data[i])]
        duplicates == Duplicated(subset)
        error == ErrorColumn(duplicates)
        results == [i \in DOMAIN data |-> DtmRowResult(admins, dataset_name, data[i])]
        failed == {i \in DOMAIN data : results[i].raised # None}
        first == CHOOSE i \in failed : \A j \in failed : i <= j
        done == IF failed = {} THEN Len(data) ELSE first
        summary == IF NumberOf(duplicates) > 0
                   THEN <<[category |-> "DTM", dataset_name |-> dataset_name,
                           text |-> ToString(NumberOf(duplicates))
                                        \o " duplicates found"]>>
                   ELSE <<>>
    IN [cls |-> "Dtm",
        input |-> data,
        raised |-> IF failed = {} THEN None ELSE results[first].raised,
        subset |-> subset,
        error |-> error,
        messages |-> summary \o Flatten([i \in 1..done |-> results[i].messages]),
        matched |-> [i \in 1..done |-> results[i].outcome # "Level0"],
        diagnostics |-> [i \in 1..done |-> results[i].messages],
        rows |-> IF failed = {}
                 THEN [i \in DOMAIN data |-> DtmHapiRow(data[i], error[i], results[i])]
                 ELSE <<>>]

(***************************************************************************)
(* Pipeline.generate_hapi_dataset                                          *)
(***************************************************************************)
\* pipeline.py lines 235-245: one message per country with duplicates.
PipelineDuplicateMessages(dataset_name, data, duplicates) ==
    {[category |-> "DTM", dataset_name |-> dataset_name,
      text |-> "Duplicates found in " \o data[i].admin0Pcode] :
        i \in {j \in DOMAIN data : duplicates[j]}}

\* pipeline.py line 247: global_data.replace(np.nan, "***NONE***"); pandas
\* takes None for a missing value as well.
Sentinel == "***NONE***"

\* Without line 247.
FillNa_Skipped(v) == v

FillNa(v) == IF v = None THEN Sentinel ELSE v

\* pipeline.py line 276: result.replace("***NONE***", None).
RestoreNa(v) == IF v = Sentinel THEN None ELSE v

\* pipeline.py lines 249-262: the columns the observations are grouped by,
\* after line 247.
GroupKey(row) ==
    <<FillNa(row.admin0Pcode), FillNa(row.admin1Pcode), FillNa(row.admin2Pcode),
      FillNa(row.admin0Name), FillNa(row.admin1Name), FillNa(row.admin2Name),
      row.adminLevel, FillNa(row.assessmentType), FillNa(row.operation),
      FillNa(row.reportingDate), row.roundNumber, FillNa(row.operationStatus)>>

\* The place of a string among the strings of the group columns, in the
\* order Python compares str (code points): groupby sorts the groups.
StrRank(s) ==
    CASE s = "" -> 0
      [] s = " " -> 1
      [] s = "***NONE***" -> 2
      [] s = "2024-01-01" -> 3
      [] s = "2024-01-02" -> 4
      [] s = "AF01" -> 5
      [] s = "AF0101" -> 6
      [] s = "AFG" -> 7
      [] s = "Active" -> 8
      [] s = "Afghanistan" -> 9
      [] s = "BA" -> 10
      [] s = "Delmas" -> 11
      [] s = "Earthquake" -> 12
      [] s = "Flood" -> 13
      [] s = "Foo" -> 14
      [] s = "HT01" -> 15
      [] s = "HT0101" -> 16
      [] s = "HT99" -> 17
      [] s = "HTI" -> 18
      [] s = "Haiti" -> 19
      [] s = "Kabul" -> 20
      [] s = "Ouest" -> 21
      [] s = "Paghman" -> 22

\* adminLevel (7th column) and roundNumber (11th) are numbers.
GroupKeyOrder(key) ==
    [k \in DOMAIN key |-> IF k \in {7, 11} THEN key[k] ELSE StrRank(key[k])]

\* Tuples compare column by column.
LexLess(a, b) ==
    \E k \in DOMAIN a :
        /\ a[k] < b[k]
        /\ \A m \in 1..(k - 1) : a[m] = b[m]

\* groupby(..., sort=True): the distinct keys in ascending order.
RECURSIVE SortedGroupKeys(_)
SortedGroupKeys(keys) ==
    IF keys = {} THEN <<>>
    ELSE LET least == CHOOSE k \in keys :
                         \A other \in keys \ {k} :
                             LexLess(GroupKeyOrder(k), GroupKeyOrder(other))
         IN <<least>> \o SortedGroupKeys(keys \ {least})

\* agg "sum" over the rows of a group.
RECURSIVE SumOf(_, _)
SumOf(data, members) ==
    IF members = {} THEN 0
    ELSE LET i == CHOOSE m \in members : TRUE
         IN data[i].numPresentIdpInd + SumOf(data, members \ {i})

\* agg "first": the first value of the group that is not null, in the order
\* of the rows; line 247 leaves no null in the error column.
First(error, members) ==
    FillNa(error[CHOOSE i \in members : \A j \in members : i <= j])

\* groupby drops the rows with a null in a group column (dropna=True); the
\* observations all have an adminLevel and a roundNumber.
Grouped(data) ==
    {i \in DOMAIN data :
        \A k \in DOMAIN GroupKey(data[i]) \ {7, 11} : GroupKey(data[i])[k] # None}

\* pipeline.py lines 263-302: the record of the group with this key, made
\* of the rows members; contributing holds these rows. A level-2 record
\* without admin-2 name gets the name " ".
AggregatedRecord(data, error, key, members) ==
    [location_code |-> RestoreNa(key[1]),
     admin1Pcode |-> RestoreNa(key[2]),
     admin2Pcode |-> RestoreNa(key[3]),
     admin0Name |-> RestoreNa(key[4]),
     provider_admin1_name |-> RestoreNa(key[5]),
     provider_admin2_name |-> IF key[7] = 2 /\ RestoreNa(key[6]) = None
                              THEN " " ELSE RestoreNa(key[6]),
     admin_level |-> key[7],
     assessment_type |-> RestoreNa(key[8]),
     operation |-> RestoreNa(key[9]),
     reportingDate |-> RestoreNa(key[10]),
     reporting_round |-> key[11],
     operationStatus |-> RestoreNa(key[12]),
     population |-> SumOf(data, members),
     error |-> RestoreNa(First(error, members)),
     contributing |-> members]

\* The records of the groups in this order.
AggregatedRecords(data, error, grouped, order) ==
    [g \in DOMAIN order |->
        AggregatedRecord(data, error, order[g],
                         {i \in grouped : GroupKey(data[i]) = order[g]})]

\* pipeline.py lines 263-302: one record per group, the groups in the order
\* of their keys.
GroupsOf(data, error, grouped) ==
    AggregatedRecords(data, error, grouped,
                      SortedGroupKeys({GroupKey(data[i]) : i \in grouped}))

Aggregate(data, error) == GroupsOf(data, error, Grouped(data))

\* hdx.utilities.dateparse.parse_date of the reporting dates in use, as
\* the number yyyymmdd.
parse_date(s) ==
    CASE s = "2024-01-01" -> 20240101
      [] s = "2024-01-02" -> 20240102

\* hdx.utilities.dateparse.iso_string_from_datetime.
iso_string_from_datetime(date) ==
    CASE date = 20240101 -> "2024-01-01T00:00:00"
      [] date = 20240102 -> "2024-01-02T00:00:00"

\* hdx.utilities.dateparse.default_date and default_enddate.
default_date == 10101

default_enddate == 99901231

\* "|".join(warnings)
RECURSIVE Join(_)
Join(warnings) ==
    IF warnings = <<>> THEN ""
    ELSE IF Len(warnings) = 1 THEN Head(warnings)
    ELSE Head(warnings) \o "|" \o Join(Tail(warnings))

\* One level of complete_admins, given whether the gazetteer of the level
\* has the code, the code with its length corrected and the code the name
\* is found under: a given code counts when the gazetteer has it, as it is
\* or with its length corrected; without a code the level takes the parent
\* of the level below or the code of the provider's name; with none of them
\* the level is empty.
LevelOf(adm_code, name, parent, known, converted, by_name) ==
    IF ~Falsy(adm_code)
    THEN IF known
         THEN [code |-> adm_code, warnings |-> <<>>, empty |-> FALSE]
         ELSE IF converted.raised = None /\ ~Falsy(converted.value)
         THEN [code |-> converted.value,
               warnings |-> <<"PCode length " \o adm_code \o "->"
                                  \o converted.value>>,
               empty |-> FALSE]
         ELSE [code |-> "",
               warnings |-> <<"PCode unknown " \o adm_code \o "->''">>,
               empty |-> FALSE]
    ELSE IF ~Falsy(parent)
    THEN [code |-> parent, warnings |-> <<>>, empty |-> FALSE]
    ELSE IF name # ""
    THEN IF ~Falsy(by_name.value)
         THEN [code |-> by_name.value,
               warnings |-> <<"PCode missing " \o name \o "->" \o by_name.value>>,
               empty |-> FALSE]
         ELSE [code |-> "",
               warnings |-> <<"PCode unknown " \o name \o "->''">>,
               empty |-> FALSE]
    ELSE [code |-> "", warnings |-> <<>>, empty |-> TRUE]

\* One level of complete_admins on its gazetteer admin; a missing name is
\* taken as "".
CompleteLevel(admin, countryiso3, adm_code, name, parent) ==
    LevelOf(adm_code, name, parent, adm_code \in admin.pcodes,
            convert_admin_pcode_length(admin, countryiso3, adm_code, None),
            get_pcode(admin, countryiso3, name, None))

\* What complete_admins returns and leaves in adm_codes and adm_names, the
\* two levels done.
CompletedAdmins(admins, level1, level2, levels) ==
    [adm_level |-> IF ~level2.empty THEN levels
                   ELSE IF ~level1.empty THEN levels - 1 ELSE levels - 2,
     warnings |-> level2.warnings \o level1.warnings,
     adm_codes |-> <<level1.code, level2.code>>,
     adm_names |-> <<IF level1.code = "" THEN ""
                     ELSE DictGet(PyIndex(admins, 0).pcode_to_name, level1.code),
                     IF level2.code = "" THEN ""
                     ELSE DictGet(PyIndex(admins, 1).pcode_to_name, level2.code)>>]

\* The admin-1 level, done after the admin-2 level: without a code of its
\* own it takes the parent of the admin-2 code.
CompleteUpper(admins, countryiso3, adm_code, name, level2, levels) ==
    CompletedAdmins(admins,
        CompleteLevel(PyIndex(admins, 0), countryiso3, adm_code, name,
                      IF level2.code = "" THEN None
                      ELSE DictGet(PyIndex(admins, 1).pcode_to_parent, level2.code)),
        level2, levels)

\* The body of complete_admins, adm_level starting at levels: the levels
\* from the deepest up, each on admins[i]; adm_level goes down by one for
\* each empty level below the deepest one that is not empty.
CompleteLevels(admins, countryiso3, provider_adm_names, adm_codes, levels) ==
    CompleteUpper(admins, countryiso3, adm_codes[1],
        IF Falsy(provider_adm_names[1]) THEN "" ELSE provider_adm_names[1],
        CompleteLevel(PyIndex(admins, 1), countryiso3, adm_codes[2],
            IF Falsy(provider_adm_names[2]) THEN "" ELSE provider_adm_names[2],
            None),
        levels)

\* complete_admins counting the levels in admins, which get_pcodes extends
\* on every call, not in provider_adm_names.
complete_admins_LevelsOfAdmins(admins, countryiso3, provider_adm_names, adm_codes) ==
    CompleteLevels(admins, countryiso3, provider_adm_names, adm_codes,
                   Len(admins))

\* hdx.scraper.framework.utilities.hapi_admins.complete_admins(admins,
\* countryiso3, provider_adm_names, adm_codes, adm_names) as called in
\* pipeline.py lines 341-347: adm_codes and adm_names are filled in place,
\* the level of the deepest level that is not empty and the warnings are
\* returned.
complete_admins(admins, countryiso3, provider_adm_names, adm_codes) ==
    CompleteLevels(admins, countryiso3, provider_adm_names, adm_codes,
                   Len(provider_adm_names))

\* pipeline.py lines 314-382: the row get_rows yields for an aggregated
\* record, with whether complete_admins was called for it, the warnings
\* handed to the error handler and the parsed date.
Yielded(dataset_name, row, matched, adm_level, warnings, adm_codes, adm_names, date) ==
    [newrow |->
        [location_code |-> row.location_code,
         provider_admin1_name |-> row.provider_admin1_name,
         provider_admin2_name |-> row.provider_admin2_name,
         admin1_code |-> adm_codes[1],
         admin1_name |-> adm_names[1],
         admin2_code |-> adm_codes[2],
         admin2_name |-> adm_names[2],
         admin_level |-> adm_level,
         operation |-> row.operation,
         assessment_type |-> row.assessment_type,
         population |-> row.population,
         reporting_round |-> row.reporting_round,
         reference_period_start |-> iso_string_from_datetime(date),
         reference_period_end |-> iso_string_from_datetime(date),
         warning |-> Join(warnings),
         error |-> row.error],
     matched |-> matched,
     messages |-> [w \in DOMAIN warnings |->
                      [category |-> "DTM", dataset_name |-> dataset_name,
                       text |-> warnings[w], message_type |-> "warning"]],
     date |-> date]

\* pipeline.py lines 334-359: a record of admin level 1 or 2.
MatchedRow(dataset_name, row, completed) ==
    Yielded(dataset_name, row, TRUE, completed.adm_level, completed.warnings,
            completed.adm_codes, completed.adm_names,
            parse_date(row.reportingDate))

\* pipeline.py lines 312-382: what get_rows makes of one aggregated record;
\* a record of admin level 0 is not given to complete_admins (lines 327-333).
PipelineHapiRow(admins, dataset_name, row) ==
    IF row.admin_level = 0
    THEN Yielded(dataset_name, row, FALSE, row.admin_level, <<>>,
                 <<"", "">>, <<"", "">>, parse_date(row.reportingDate))
    ELSE MatchedRow(dataset_name, row,
             complete_admins(admins, row.location_code,
                 <<row.provider_admin1_name, row.provider_admin2_name>>,
                 <<row.admin1Pcode, row.admin2Pcode>>))

\* pipeline.py lines 304-305 and 371-374: min_date and max_date after the
\* rows with these dates were yielded.
RECURSIVE TrackDates(_, _, _)
TrackDates(dates, min_date, max_date) ==
    IF dates = <<>> THEN [startdate |-> min_date, enddate |-> max_date]
    ELSE TrackDates(Tail(dates),
                    IF Head(dates) < min_date THEN Head(dates) ELSE min_date,
                    IF Head(dates) > max_date THEN Head(dates) ELSE max_date)

\* dataset.set_time_period before generate_resource has taken the rows from
\* the generator.
TimePeriod_BeforeRows(yielded) ==
    TrackDates(<<>>, default_enddate, default_date)

\* pipeline.py lines 394-402: generate_resource takes every row from
\* get_rows, then set_time_period(min_date, max_date).
TimePeriod(yielded) ==
    TrackDates([g \in DOMAIN yielded |-> yielded[g].date],
               default_enddate, default_date)

\* pipeline.py lines 309-382: the rows of the generator, in the order of the
\* aggregated records.
get_rows(admins, dataset_name, result) ==
    [g \in DOMAIN result |-> PipelineHapiRow(admins, dataset_name, result[g])]

\* pipeline.py lines 384-403: what the call leaves: the error column and
\* the messages of the duplicate check, the aggregated records, the rows of
\* the resource and the time period.
PipelineDataset(dataset_name, data, subset, duplicates, result, yielded) ==
    [cls |-> "Pipeline",
     input |-> data,
     raised |-> None,
     subset |-> subset,
     error |-> ErrorColumn(duplicates),
     messages |-> PipelineDuplicateMessages(dataset_name, data, duplicates),
     result |-> result,
     rows |-> [g \in DOMAIN yielded |-> yielded[g].newrow],
     matched |-> [g \in DOMAIN yielded |-> yielded[g].matched],
     diagnostics |-> [g \in DOMAIN yielded |-> yielded[g].messages],
     time_period |-> TimePeriod(yielded)]

\* pipeline.py lines 304-403, the observations aggregated.
PipelineAfterGrouping(admins, dataset_name, data, subset, duplicates, result) ==
    PipelineDataset(dataset_name, data, subset, duplicates, result,
                    get_rows(admins, dataset_name, result))

\* pipeline.py lines 232-403, the duplicates marked.
PipelineAfterDuplicates(admins, dataset_name, data, subset, duplicates) ==
    PipelineAfterGrouping(admins, dataset_name, data, subset, duplicates,
                          Aggregate(data, ErrorColumn(duplicates)))

\* pipeline.py lines 210-403, the columns of the duplicate check selected.
PipelineCheckDuplicates(admins, dataset_name, data, subset) ==
    PipelineAfterDuplicates(admins, dataset_name, data, subset,
                            Duplicated(subset))

\* pipeline.py lines 197-403, after get_pcodes: admins is self._admins with
\* the two gazetteers appended.
PipelineGenerateHapi(admins, dataset_name, data) ==
    PipelineCheckDuplicates(admins, dataset_name, data,
        [i \in DOMAIN data |-> PipelineDedupKey(data[i])])

(***************************************************************************)
(* The DTM API and HDX as the run sees them, get_country_data and          *)
(* generate_dataset.                                                       *)
(***************************************************************************)
\* A row of the IDPS_URL answer: get_country_data adds operationStatus and
\* adminLevel to it.
ApiRow ==
    [admin0Pcode |-> "HTI", admin0Name |-> "Haiti",
     admin1Pcode |-> None, admin1Name |-> None,
     admin2Pcode |-> None, admin2Name |-> None,
     roundNumber |-> 1, assessmentType |-> "BA",
     operation |-> "Earthquake",
     reportingDate |-> "2024-01-01", yearReportingDate |-> 2024,
     numPresentIdpInd |-> 5, displacementReason |-> "Conflict",
     idpOriginAdmin1Name |-> None, idpOriginAdmin1Pcode |-> None]

\* Haiti at country level: two reports of the earthquake operation, a day
\* apart, and one of the flood operation.
HaitiRows ==
    { ApiRow,
      [ApiRow EXCEPT !.reportingDate = "2024-01-02"],
      [ApiRow EXCEPT !.operation = "Flood"] }

HaitiAdmin1Row == [ApiRow EXCEPT !.admin1Pcode = "HT01", !.admin1Name = "Ouest"]

HaitiAdmin2Row ==
    [ApiRow EXCEPT !.admin1Pcode = "HT01", !.admin1Name = "Ouest",
                   !.admin2Pcode = "HT0101", !.admin2Name = "Delmas"]

AfghanistanRow == [ApiRow EXCEPT !.admin0Pcode = "AFG", !.admin0Name = "Afghanistan"]

AfghanistanAdmin2Row ==
    [AfghanistanRow EXCEPT !.admin1Pcode = "AF01", !.admin1Name = "Kabul",
                           !.admin2Pcode = "AF0101", !.admin2Name = "Paghman"]

\* The most rows the API returns for Haiti at country level.
MaxApiRows == 2

\* download_json: the parsed answer, or an exception when the download fails.
Answer(rows) == [ok |-> TRUE, result |-> rows]

Failure == [ok |-> FALSE]

\* Lists of distinct rows.
Distinct(rows, n) ==
    {list \in [1..n -> rows] : \A i, j \in 1..n : list[i] = list[j] => i = j}

\* The answers of IDPS_URL by country and admin level.
IdpsAnswers ==
    { (<<"HTI", 0>> :> haiti0) @@ (<<"HTI", 1>> :> haiti1) @@
      (<<"HTI", 2>> :> haiti2) @@ (<<"AFG", 0>> :> afghanistan0) @@
      (<<"AFG", 1>> :> Answer(<<>>)) @@ (<<"AFG", 2>> :> afghanistan2) :
        haiti0 \in {Failure} \cup
                   {Answer(list) :
                       list \in UNION {Distinct(HaitiRows, n) : n \in 0..MaxApiRows}},
        haiti1 \in {Answer(<<>>), Answer(<<HaitiAdmin1Row>>)},
        haiti2 \in {Failure, Answer(<<>>), Answer(<<HaitiAdmin2Row>>)},
        afghanistan0 \in {Answer(<<>>), Answer(<<AfghanistanRow>>)},
        afghanistan2 \in {Answer(<<>>), Answer(<<AfghanistanAdmin2Row>>)} }

\* get_operation_status (pipeline.py lines 51-60): operationStatus by
\* country and operation; Haiti's flood operation is in the answer of
\* OPERATION_STATUS_URL or is not.
OperationStatusTables ==
    { [key \in {<<"HTI", "Earthquake">>, <<"HTI", "Flood">>,
                <<"AFG", "Earthquake">>} |-> "Active"],
      [key \in {<<"HTI", "Earthquake">>, <<"AFG", "Earthquake">>} |-> "Active"] }

\* The countries dataset.add_country_location finds.
LocationSets == {{"HTI", "AFG"}, {"HTI"}}

\* What the run is answered: get_countries (pipeline.py lines 43-49),
\* get_operation_status, add_country_location and the IDPS_URL downloads.
ApiAnswers(country_lists) ==
    {[drawn |-> TRUE, countries |-> countries,
      operation_status |-> operation_status,
      locations |-> locations, idps |-> idps] :
        countries \in country_lists,
        operation_status \in OperationStatusTables,
        locations \in LocationSets,
        idps \in IdpsAnswers}

\* The "admin_levels" entry of the project configuration.
admin_levels == <<0, 1, 2>>

\* The "qc_countries" entry of the project configuration.
qc_countries == {"HTI"}

\* What get_country_data has done so far.
NoCountryData ==
    [result |-> <<>>, highest_admin_level |-> 0, raised |-> None, log |-> <<>>]

Logged(logger, message, iso3, admin_level) ==
    [logger |-> logger, message |-> message, iso3 |-> iso3,
     admin_level |-> admin_level]

\* Lines 83-90: every row gets its operationStatus and adminLevel. The
\* handler of the KeyError of a missing operation status reads
\* row['operation_status'], a key the rows do not have, and raises KeyError
\* itself.
WithStatus(operation_status, iso3, admin_level, data) ==
    IF \E i \in DOMAIN data : <<iso3, data[i].operation>> \notin DOMAIN operation_status
    THEN [raised |-> "KeyError", rows |-> <<>>]
    ELSE [raised |-> None,
          rows |-> [i \in DOMAIN data |->
                       data[i] @@ [operationStatus |->
                                       operation_status[<<iso3, data[i].operation>>],
                                   adminLevel |-> admin_level]]]

NoData_Raises(done, iso3, admin_level) == [done EXCEPT !.raised = "ValueError"]

\* Lines 92-96: no rows at this admin level.
NoData(done, iso3, admin_level) ==
    [done EXCEPT !.log = Append(@, Logged("warning", "has no data", iso3, admin_level))]

\* Lines 83-98, the answer downloaded.
AddRows(done, iso3, admin_level, data) ==
    IF data.raised # None THEN [done EXCEPT !.raised = data.raised]
    ELSE IF data.rows = <<>> THEN NoData(done, iso3, admin_level)
    ELSE [done EXCEPT !.highest_admin_level = admin_level,
                      !.result = @ \o data.rows]

\* Lines 67-98: one admin level. An exception of download_json (line 81)
\* is not handled.
AdminLevelStep(a, iso3, admin_level, done) ==
    IF iso3 \notin a.locations
    THEN [done EXCEPT !.log = Append(@, Logged("error", "Couldn't find country",
                                               iso3, admin_level))]
    ELSE IF ~a.idps[<<iso3, admin_level>>].ok
    THEN [done EXCEPT !.raised = "DownloadError"]
    ELSE AddRows(done, iso3, admin_level,
                 WithStatus(a.operation_status, iso3, admin_level,
                            a.idps[<<iso3, admin_level>>].result))

RECURSIVE AdminLevelsFrom(_, _, _, _)
AdminLevelsFrom(a, iso3, k, done) ==
    IF k > Len(admin_levels) \/ done.raised # None THEN done
    ELSE AdminLevelsFrom(a, iso3, k + 1,
                         AdminLevelStep(a, iso3, admin_levels[k], done))

\* get_country_data (pipeline.py lines 62-99, dtm.py lines 56-91; Dtm does
\* not return the highest admin level).
get_country_data(a, iso3) == AdminLevelsFrom(a, iso3, 1, NoCountryData)

\* What generate_dataset has collected so far.
NoCountriesData ==
    [countries_data |-> <<>>, highest_admin_level |-> 0, raised |-> None,
     log |-> <<>>]

AddCountry_LastLevel(done, country) ==
    [countries_data |-> done.countries_data \o country.result,
     highest_admin_level |-> country.highest_admin_level,
     raised |-> country.raised, log |-> done.log \o country.log]

\* pipeline.py lines 121-124 (dtm.py lines 112-113 without the admin level).
AddCountry(done, country) ==
    [countries_data |-> done.countries_data \o country.result,
     highest_admin_level |->
         IF country.highest_admin_level > done.highest_admin_level
         THEN country.highest_admin_level
         ELSE done.highest_admin_level,
     raised |-> country.raised, log |-> done.log \o country.log]

\* pipeline.py lines 118-124, dtm.py lines 110-113.
RECURSIVE CountriesFrom(_, _, _, _)
CountriesFrom(a, countries, k, done) ==
    IF k > Len(countries) \/ done.raised # None THEN done
    ELSE CountriesFrom(a, countries, k + 1,
                       AddCountry(done, get_country_data(a, countries[k])))

\* pipeline.py line 104.
DatasetNameOf(countries) ==
    IF Len(countries) > 1 THEN "global" ELSE Lower(countries[1])

\* pipeline.py line 134, dtm.py line 123.
Filename(c, name, highest_admin_level) ==
    IF c = "Dtm" THEN name \o "-iom-dtm-from-api-admin-0-to-2.csv"
    ELSE name \o "-iom-dtm-from-api-admin-0-to-"
              \o ToString(highest_admin_level) \o ".csv"

StoresGlobalData_Always(countries) == TRUE

\* pipeline.py line 126, dtm.py line 115.
StoresGlobalData(countries) == Len(countries) > 1

\* pipeline.py lines 150-155: admin1Pcode is null and the country is one of
\* the QuickCharts countries.
QcSelected(data) ==
    {i \in DOMAIN data : /\ data[i].admin1Pcode = None
                         /\ data[i].admin0Pcode \in qc_countries}

\* pipeline.py lines 158-167.
QcDropped ==
    {"admin1Name", "admin1Pcode", "admin2Name", "admin2Pcode", "adminLevel"}

QcRecord(row) == [column \in DOMAIN row \ QcDropped |-> row[column]]

\* pipeline.py lines 170-172: the group columns. groupby leaves out the
\* rows with a null in one of them.
QcKey(row) == <<row.admin0Pcode, row.operation, row.yearReportingDate>>

QcGrouped(data, selected) ==
    {i \in selected : data[i].admin0Pcode # None /\ data[i].operation # None}

QcKeyOrder(key) == <<StrRank(key[1]), StrRank(key[2]), key[3]>>

RECURSIVE QcSortedKeys(_)
QcSortedKeys(keys) ==
    IF keys = {} THEN <<>>
    ELSE LET least == CHOOSE k \in keys :
                         \A other \in keys \ {k} :
                             LexLess(QcKeyOrder(k), QcKeyOrder(other))
         IN <<least>> \o QcSortedKeys(keys \ {least})

idxmax_First(data, members) == CHOOSE i \in members : \A j \in members : i <= j

\* pipeline.py line 172: the index of the greatest reportingDate of a
\* group, the first one of equal dates.
idxmax(data, members) ==
    CHOOSE i \in members :
        \A j \in members \ {i} :
            \/ StrRank(data[j].reportingDate) < StrRank(data[i].reportingDate)
            \/ /\ data[j].reportingDate = data[i].reportingDate
               /\ i < j

\* pipeline.py lines 169-173: one row per group, in the order of the groups.
QcLatest(data, grouped, keys) ==
    [k \in DOMAIN keys |->
        QcRecord(data[idxmax(data, {i \in grouped : QcKey(data[i]) = keys[k]})])]

QcRows(data, grouped) ==
    QcLatest(data, grouped, QcSortedKeys({QcKey(data[i]) : i \in grouped}))

\* pipeline.py lines 144-185, dtm.py lines 132-173.
QuickCharts(data) == QcRows(data, QcGrouped(data, QcSelected(data)))

NoQuickCharts == [generated |-> FALSE]

\* generate_dataset (pipeline.py lines 101-187, dtm.py lines 93-175), the
\* countries' data collected. An exception of get_country_data leaves
\* generate_dataset before anything is stored; a DataFrame of no rows has no
\* column admin1Pcode and line 150 raises KeyError.
DatasetOutcome(c, countries, collected) ==
    IF collected.raised # None
    THEN [made |-> TRUE, countries |-> countries, raised |-> collected.raised,
          stored |-> FALSE, name |-> DatasetNameOf(countries),
          filename |-> None, countries_data |-> collected.countries_data,
          highest_admin_level |-> collected.highest_admin_level,
          quickcharts |-> NoQuickCharts, log |-> collected.log]
    ELSE [made |-> TRUE, countries |-> countries,
          raised |-> IF Len(countries) > 1 /\ collected.countries_data = <<>>
                     THEN "KeyError" ELSE None,
          stored |-> StoresGlobalData(countries),
          name |-> DatasetNameOf(countries),
          filename |-> Filename(c, DatasetNameOf(countries),
                                collected.highest_admin_level),
          countries_data |-> collected.countries_data,
          highest_admin_level |-> collected.highest_admin_level,
          quickcharts |-> IF Len(countries) > 1 /\ collected.countries_data # <<>>
                          THEN [generated |-> TRUE,
                                rows |-> QuickCharts(collected.countries_data)]
                          ELSE NoQuickCharts,
          log |-> collected.log]

GenerateDatasetOutcome(c, a, countries) ==
    DatasetOutcome(c, countries, CountriesFrom(a, countries, 1, NoCountriesData))

(***************************************************************************)
(* The state machine.                                                      *)
(***************************************************************************)
NoHapi == [run |-> FALSE]

\* No API answers drawn, no generate_dataset call made, main not started.
NoApi == [drawn |-> FALSE]

NoDataset == [made |-> FALSE]

NoMain == [started |-> FALSE]

\* A Dtm object after __init__ (dtm.py lines 30-35).
InitAdmin ==
    /\ cls = "Dtm"
    /\ _admins = <<>>
    /\ call = NoCall
    /\ global_data = <<>>
    /\ hapi = NoHapi
    /\ api = NoApi
    /\ dataset = NoDataset
    /\ main = NoMain

\* A Dtm (dtm.py lines 30-35) or a Pipeline (pipeline.py lines 36-41) object
\* after __init__.
Init ==
    /\ cls \in {"Dtm", "Pipeline"}
    /\ _admins = <<>>
    /\ call = NoCall
    /\ global_data = <<>>
    /\ hapi = NoHapi
    /\ api = NoApi
    /\ dataset = NoDataset
    /\ main = NoMain

LoadedPcodes_Level2First(admins) == admins \o <<AdminLevel(2), AdminLevel(1)>>

\* get_pcodes (dtm.py lines 177-183, pipeline.py lines 189-195): the
\* gazetteers of admin level 1 and 2 are appended to self._admins.
LoadedPcodes(admins) == admins \o <<AdminLevel(1), AdminLevel(2)>>

\* Lines 177-183.
get_pcodes ==
    /\ Len(_admins) < 2 * MaxPcodeLoads
    /\ _admins' = LoadedPcodes(_admins)
    /\ UNCHANGED <<cls, call, global_data, hapi, api, dataset, main>>

\* Lines 343-367 with 185-259: one row's p-code check, the gazetteers loaded.
CheckPcode ==
    /\ cls = "Dtm"
    /\ Len(_admins) >= 2
    /\ \E a \in CallArgs :
          LET result == get_admin_info(_admins, a)
          IN call' = [made |-> TRUE, args |-> a, result |-> result,
                      row |-> RowAfter(result)]
    /\ UNCHANGED <<cls, _admins, global_data, hapi, api, dataset, main>>

NextAdmin == get_pcodes \/ CheckPcode

SpecAdmin == InitAdmin /\ [][NextAdmin]_vars

\* generate_dataset (dtm.py lines 93-116, pipeline.py lines 101-127): the
\* observations collected for the countries replace the stored ones when
\* more than one country was asked for. The HAPI dataset made of other
\* observations than the stored ones is forgotten.
GenerateDataset(lists) ==
    \E countries \in CountryLists :
        IF Len(countries) > 1
        THEN \E countries_data \in lists :
                /\ global_data' = countries_data
                /\ hapi' = IF countries_data # global_data THEN NoHapi ELSE hapi
                /\ UNCHANGED <<cls, _admins, call, api, dataset, main>>
        ELSE UNCHANGED vars

generate_dataset == GenerateDataset(ObservationLists)

\* pd.DataFrame([]) has no columns: selecting the duplicate-check columns
\* (dtm.py line 289) or dropping numberMales (pipeline.py line 208) raises
\* KeyError.
NoColumns(data) ==
    [cls |-> cls, input |-> data, raised |-> "KeyError", error |-> <<>>,
     messages |-> <<>>]

\* generate_hapi_dataset (dtm.py lines 261-390, pipeline.py lines 197-403).
GenerateHapi(admins) ==
    /\ _admins' = admins
    /\ hapi' = [run |-> TRUE,
                result |-> IF global_data = <<>> THEN NoColumns(global_data)
                           ELSE IF cls = "Dtm"
                           THEN DtmGenerateHapi(admins, DatasetName, global_data)
                           ELSE PipelineGenerateHapi(admins, DatasetName,
                                                     global_data)]

generate_hapi_dataset ==
    /\ Len(_admins) < 2 * MaxPcodeLoads
    /\ GenerateHapi(LoadedPcodes(_admins))
    /\ UNCHANGED <<cls, call, global_data, api, dataset, main>>

Next == generate_dataset \/ generate_hapi_dataset

Spec == Init /\ [][Next]_vars

\* A Pipeline object after __init__ (pipeline.py lines 36-41).
InitPipeline ==
    /\ cls = "Pipeline"
    /\ _admins = <<>>
    /\ call = NoCall
    /\ global_data = <<>>
    /\ hapi = NoHapi
    /\ api = NoApi
    /\ dataset = NoDataset
    /\ main = NoMain

\* generate_dataset on the observations of one operation in one country.
generate_dataset_operation == GenerateDataset(OperationObservationLists)

NextPipeline == generate_dataset_operation \/ generate_hapi_dataset

SpecPipeline == InitPipeline /\ [][NextPipeline]_vars

\* A Dtm or a Pipeline object after __init__, and what the API and HDX
\* answer while it is used.
InitDataset ==
    /\ cls \in {"Dtm", "Pipeline"}
    /\ _admins = <<>>
    /\ call = NoCall
    /\ global_data = <<>>
    /\ hapi = NoHapi
    /\ api \in ApiAnswers({<<"HTI", "AFG">>})
    /\ dataset = NoDataset
    /\ main = NoMain

\* generate_dataset has returned or raised (pipeline.py lines 101-187,
\* dtm.py lines 93-175): global_data is assigned before the resources are
\* generated. The HAPI dataset made of other observations than the stored
\* ones is forgotten.
DatasetMade(outcome) ==
    /\ dataset' = outcome
    /\ global_data' = IF outcome.stored THEN outcome.countries_data
                      ELSE global_data
    /\ hapi' = IF outcome.stored /\ outcome.countries_data # global_data
               THEN NoHapi ELSE hapi

\* generate_dataset with the countries' data downloaded from the API.
generate_dataset_download ==
    /\ \E countries \in CountryLists :
          DatasetMade(GenerateDatasetOutcome(cls, api, countries))
    /\ UNCHANGED <<cls, _admins, call, api, main>>

NextDataset == generate_dataset_download \/ generate_hapi_dataset

SpecDataset == InitDataset /\ [][NextDataset]_vars

\* main of iom_dtm (__main__.py lines 68-73): the Pipeline object made, and
\* what the API and HDX answer during the run.
InitMain ==
    /\ cls = "Pipeline"
    /\ _admins = <<>>
    /\ call = NoCall
    /\ global_data = <<>>
    /\ hapi = NoHapi
    /\ api \in ApiAnswers(CountryLists)
    /\ dataset = NoDataset
    /\ main = NoMain

Called(name, dataset_name) == [call |-> name, dataset |-> dataset_name]

\* __main__.py lines 75-80: get_countries, get_operation_status and the
\* country lists of the loop, all the countries first.
main_countries ==
    /\ ~main.started
    /\ main' = [started |-> TRUE, at |-> "generate_dataset",
                todo |-> <<api.countries>> \o
                         [k \in DOMAIN api.countries |-> <<api.countries[k]>>],
                calls |-> <<>>, raised |-> None]
    /\ UNCHANGED <<cls, _admins, call, global_data, hapi, api, dataset>>

\* The loop goes on with the next country list or ends.
NextTodo(todo) == IF Len(todo) > 1 THEN "generate_dataset" ELSE "completed"

HapiFollows_Always(countries) == TRUE

\* __main__.py line 105.
HapiFollows(countries) == Len(countries) > 1

\* __main__.py lines 81-104, generate_dataset done: its exception leaves
\* main; else the dataset is created in HDX, and the HAPI dataset is next
\* when there is more than one country.
MainDataset(outcome) ==
    IF outcome.raised # None
    THEN main' = [main EXCEPT !.at = "raised", !.raised = outcome.raised,
                              !.calls = Append(@, Called("generate_dataset",
                                                         outcome.name))]
    ELSE main' = [main EXCEPT
                    !.at = IF HapiFollows(outcome.countries)
                           THEN "generate_hapi_dataset" ELSE NextTodo(main.todo),
                    !.todo = IF HapiFollows(outcome.countries) THEN @ ELSE Tail(@),
                    !.calls = @ \o <<Called("generate_dataset", outcome.name),
                                      Called("create_in_hdx", outcome.name)>>]

main_generate_dataset ==
    /\ main.started
    /\ main.at = "generate_dataset"
    /\ DatasetMade(GenerateDatasetOutcome(cls, api, Head(main.todo)))
    /\ MainDataset(GenerateDatasetOutcome(cls, api, Head(main.todo)))
    /\ UNCHANGED <<cls, _admins, call, api>>

\* __main__.py lines 105-119.
MainHapi(result) ==
    IF result.raised # None
    THEN main' = [main EXCEPT !.at = "raised", !.raised = result.raised,
                              !.calls = Append(@, Called("generate_hapi_dataset",
                                                         "hdx-hapi-idps"))]
    ELSE main' = [main EXCEPT
                    !.at = NextTodo(main.todo), !.todo = Tail(@),
                    !.calls = @ \o <<Called("generate_hapi_dataset", "hdx-hapi-idps"),
                                      Called("create_in_hdx", "hdx-hapi-idps")>>]

main_generate_hapi_dataset ==
    /\ main.started
    /\ main.at = "generate_hapi_dataset"
    /\ GenerateHapi(LoadedPcodes(_admins))
    /\ MainHapi(hapi'.result)
    /\ UNCHANGED <<cls, call, global_data, api, dataset>>

NextMain == main_countries \/ main_generate_dataset \/ main_generate_hapi_dataset

SpecMain == InitMain /\ [][NextMain]_vars

(***************************************************************************)
(* Claims about get_admin_info, checked under SpecAdmin.                   *)
(***************************************************************************)
HasReturned == call.made /\ call.result.raised = None

\* The loaded gazetteer of an admin level.
Gazetteer(admin_level) == PyIndex(_admins, admin_level - 1)

InGazetteerOf(admin_level, iso, code) ==
    /\ code \in Gazetteer(admin_level).pcodes
    /\ Gazetteer(admin_level).pcode_to_iso3[code] = iso

\* C1: every non-empty admin code get_admin_info returns is an entry of the
\* gazetteer of its admin level and belongs to the row's country.
C1_ResolvedCodeOfRowCountry ==
    HasReturned =>
        /\ ~Falsy(call.result.admin_info.admin1_code) =>
              InGazetteerOf(1, call.args.iso, call.result.admin_info.admin1_code)
        /\ ~Falsy(call.result.admin_info.admin2_code) =>
              InGazetteerOf(2, call.args.iso, call.result.admin_info.admin2_code)

\* C2: a call that takes a failure or fallback path (missing p-code, length
\* match, name match, unresolved) registers exactly one diagnostic message.
C2_ExactlyOneDiagnostic ==
    (HasReturned /\ call.result.outcome # "DirectHit") =>
        Len(call.result.messages) = 1

\* C3: get_admin_info never raises, whatever the arguments.
C3_NeverRaises ==
    call.made => call.result.raised = None

\* C4: an empty or missing p-code gives one MissingValue diagnostic, the empty
\* resolution and the warning "Missing pcode", the gazetteer not consulted.
C4_MissingPcode ==
    (call.made /\ call.args.pcode \in {None, ""}) =>
        /\ call.result.raised = None
        /\ call.result.admin_info = EmptyAdminInfo
        /\ call.result.warning = "Missing pcode"
        /\ call.result.messages =
              <<[category |-> "DTM", dataset_name |-> call.args.dataset_name,
                 value_type |-> IF call.args.admin_level = 1
                                THEN "admin 1 pcode" ELSE "admin 2 pcode",
                 value |-> call.args.pcode]>>
        /\ call.result.stages = <<>>

C4_Witness ==
    /\ call.made
    /\ call.args.pcode = ""
    /\ call.args.admin_level = 2
    /\ call.result.warning = "Missing pcode"

\* The admin code a call returned for the level it was asked about.
ResolvedCode ==
    IF call.args.admin_level = 1 THEN call.result.admin_info.admin1_code
    ELSE call.result.admin_info.admin2_code

IsDirectHit ==
    /\ call.made
    /\ ~Falsy(call.args.pcode)
    /\ call.args.pcode \in Gazetteer(call.args.admin_level).pcodes

\* C5: a p-code that is in the gazetteer of the requested level verbatim is
\* resolved to itself without warning, and only then is there no warning.
C5_DirectHit ==
    /\ IsDirectHit =>
          /\ call.result.raised = None
          /\ ResolvedCode = call.args.pcode
          /\ call.result.warning = None
    /\ (HasReturned /\ call.result.warning = None) => IsDirectHit

C5_Witness ==
    /\ IsDirectHit
    /\ call.args.pcode = "HT0101"
    /\ call.result.warning = None
    /\ call.result.admin_info.admin2_code = "HT0101"

\* The code the length transform gives for the call's p-code (None when it
\* gives none or fails).
LengthTransformed ==
    LET conv == convert_admin_pcode_length(Gazetteer(call.args.admin_level),
                    call.args.iso, call.args.pcode, call.args.parent_pcode)
    IN IF conv.raised # None THEN None ELSE conv.value

IsLengthMatch ==
    /\ call.made
    /\ ~Falsy(call.args.pcode)
    /\ call.args.pcode \notin Gazetteer(call.args.admin_level).pcodes
    /\ LengthTransformed \in Gazetteer(call.args.admin_level).pcodes

\* C6: a p-code unknown to the gazetteer whose length transform is in the
\* gazetteer is resolved to the transformed code, with the warning
\* "Pcode unknown {orig}->{matched}", orig the code the provider supplied.
C6_LengthMatch ==
    IsLengthMatch =>
        /\ call.result.raised = None
        /\ ResolvedCode = LengthTransformed
        /\ call.result.warning =
              "Pcode unknown " \o call.args.pcode \o "->" \o LengthTransformed

C6_Witness ==
    /\ IsLengthMatch
    /\ call.args.pcode = "HT101"
    /\ call.result.warning = "Pcode unknown HT101->HT0101"
    /\ call.result.admin_info.admin2_code = "HT0101"

\* Direct hit and length transform both failed.
ReachedNameLookup ==
    /\ call.made
    /\ ~Falsy(call.args.pcode)
    /\ call.args.pcode \notin Gazetteer(call.args.admin_level).pcodes
    /\ Falsy(LengthTransformed)

\* The gazetteer entries of a level, of the call's country, named like name.
EntriesNamed(admin_level, name) ==
    {r \in {Gazetteer(admin_level).rows[i] :
                i \in 1..Len(Gazetteer(admin_level).rows)} :
        r.iso3 = call.args.iso /\ Lower(r.name) = Lower(name)}

\* The level-1 code the supplied parent name stands for (None when none).
ParentOfName ==
    IF EntriesNamed(1, call.args.parent_name) = {} THEN None
    ELSE (CHOOSE r \in EntriesNamed(1, call.args.parent_name) : TRUE).pcode

\* The parent the name lookup searches under: the code of the parent name
\* when one was supplied, else the supplied parent code.
SearchParent ==
    IF ~Falsy(call.args.parent_name) THEN ParentOfName
    ELSE call.args.parent_pcode

\* The entries the name lookup may match.
NameCandidates ==
    {r \in EntriesNamed(call.args.admin_level, call.args.admin_name) :
        (call.args.admin_level = 2 /\ ~Falsy(SearchParent))
            => r.parent = SearchParent}

\* C7: after direct hit and length transform failed, the row is resolved by
\* name: to an entry of the target level named adminName, under the code the
\* parent name resolves to when a parent name was supplied, with the warning
\* "Pcode unknown {orig}->{matched}".
C7_NameLookup ==
    (ReachedNameLookup /\ call.args.admin_name # None /\ NameCandidates # {}) =>
        /\ call.result.raised = None
        /\ ResolvedCode \in {r.pcode : r \in NameCandidates}
        /\ call.result.warning =
              "Pcode unknown " \o call.args.pcode \o "->" \o ResolvedCode

C7_Witness ==
    /\ ReachedNameLookup
    /\ call.args.pcode = "HT99"
    /\ call.args.admin_level = 2
    /\ call.args.admin_name = "CENTRE"
    /\ call.args.parent_name = "Nord"
    /\ call.args.parent_pcode = "HT01"
    /\ call.result.admin_info.admin2_code = "HT0201"
    /\ call.result.warning = "Pcode unknown HT99->HT0201"

HapiDone == hapi.run /\ hapi.result.raised = None

\* The row of the scenario: Haiti, admin level 2, admin1Pcode HT01, no
\* admin2Pcode, admin-2 name Foo.
IsScenarioRow(row) ==
    /\ row.admin0Pcode = "HTI"
    /\ row.adminLevel = 2
    /\ row.admin1Pcode = "HT01"
    /\ row.admin2Pcode = ""
    /\ row.admin2Name = "Foo"

\* C9: a level-2 row without admin2Pcode and with a valid admin1Pcode gets
\* the warning "Missing pcode" and its admin1 code from the admin1Pcode.
C9_FallsBackToParent ==
    (HapiDone /\ cls = "Dtm") =>
        \A i \in DOMAIN hapi.result.input :
            IsScenarioRow(hapi.result.input[i]) =>
                /\ hapi.result.rows[i].warning = "Missing pcode"
                /\ hapi.result.rows[i].admin1_code = "HT01"

\* The key of the claim: the admin code with fallback (as the class takes
\* it), the provider names, round, assessment type, operation and date.
SameSevenFields(r1, r2) ==
    /\ (IF cls = "Dtm" THEN DtmKeyCode(r1) ELSE PipelineKeyCode(r1))
          = (IF cls = "Dtm" THEN DtmKeyCode(r2) ELSE PipelineKeyCode(r2))
    /\ r1.admin1Name = r2.admin1Name
    /\ r1.admin2Name = r2.admin2Name
    /\ r1.roundNumber = r2.roundNumber
    /\ r1.assessmentType = r2.assessmentType
    /\ r1.operation = r2.operation
    /\ r1.reportingDate = r2.reportingDate

\* The three columns Pipeline compares besides.
SameOriginFields(r1, r2) ==
    /\ r1.displacementReason = r2.displacementReason
    /\ r1.idpOriginAdmin1Name = r2.idpOriginAdmin1Name
    /\ r1.idpOriginAdmin1Pcode = r2.idpOriginAdmin1Pcode

RowOrders(n) ==
    {p \in [1..n -> 1..n] : \A i, j \in 1..n : i # j => p[i] # p[j]}

\* The error column generate_hapi_dataset gives the observations data.
ErrorColumnOf(data) ==
    IF cls = "Dtm" THEN DtmGenerateHapi(_admins, DatasetName, data).error
    ELSE PipelineGenerateHapi(_admins, DatasetName, data).error

\* C11: the observations flagged "Duplicate row" are the same for every
\* order of the observation list, and two observations with the same
\* dedup key are both flagged.
C11_FlaggedWhateverTheOrder ==
    HapiDone =>
        LET data == hapi.result.input
        IN /\ \A p \in RowOrders(Len(data)) :
                  LET permuted == [i \in DOMAIN data |-> data[p[i]]]
                  IN \A i \in DOMAIN data :
                         ErrorColumnOf(permuted)[i] = hapi.result.error[p[i]]
           /\ \A i, j \in DOMAIN data :
                  (i # j /\ hapi.result.subset[i] = hapi.result.subset[j]) =>
                      /\ hapi.result.error[i] = "Duplicate row"
                      /\ hapi.result.error[j] = "Duplicate row"

\* The population 3 before the population 5 of the same key, both flagged.
C11_Witness ==
    /\ HapiDone
    /\ Len(hapi.result.input) = 2
    /\ hapi.result.input[1].numPresentIdpInd = 3
    /\ hapi.result.input[2].numPresentIdpInd = 5
    /\ hapi.result.subset[1] = hapi.result.subset[2]
    /\ hapi.result.error = <<"Duplicate row", "Duplicate row">>

\* The admin code the key is said to hold: admin-2 code, else admin-1 code,
\* else country code.
FallbackCode(row) ==
    IF row.admin2Pcode # None THEN row.admin2Pcode
    ELSE IF row.admin1Pcode # None THEN row.admin1Pcode
    ELSE row.admin0Pcode

\* C12: the admin component of the dedup key is the row's admin-2 code, the
\* admin-1 code when that is missing, the country code when that is missing
\* too.
C12_KeyCodeFallsBack ==
    HapiDone =>
        \A i \in DOMAIN hapi.result.input :
            hapi.result.subset[i][1] = FallbackCode(hapi.result.input[i])

\* Two observations that differ in the reporting date and in nothing else.
DifferInDateOnly(r1, r2) ==
    /\ r1.reportingDate # r2.reportingDate
    /\ [r1 EXCEPT !.reportingDate = r2.reportingDate] = r2

\* C13: two observations that differ in the reporting date only have
\* different dedup keys; when one of them is flagged, another observation
\* has its key.
C13_DateInKey ==
    HapiDone =>
        \A i, j \in DOMAIN hapi.result.input :
            DifferInDateOnly(hapi.result.input[i], hapi.result.input[j]) =>
                /\ hapi.result.subset[i] # hapi.result.subset[j]
                /\ hapi.result.error[i] = "Duplicate row" =>
                       \E k \in DOMAIN hapi.result.input \ {i, j} :
                           hapi.result.subset[k] = hapi.result.subset[i]

\* Pipeline: the observations of two days, none flagged.
C13_Witness ==
    /\ HapiDone
    /\ cls = "Pipeline"
    /\ Len(hapi.result.input) = 2
    /\ DifferInDateOnly(hapi.result.input[1], hapi.result.input[2])
    /\ hapi.result.error = <<None, None>>

(***************************************************************************)
(* Claims about the aggregation of Pipeline.generate_hapi_dataset, checked *)
(* under SpecPipeline.                                                     *)
(***************************************************************************)
\* The group columns of an aggregated record.
RecordKey(record) ==
    <<record.location_code, record.admin1Pcode, record.admin2Pcode,
      record.admin0Name, record.provider_admin1_name,
      record.provider_admin2_name, record.admin_level,
      record.assessment_type, record.operation, record.reportingDate,
      record.reporting_round, record.operationStatus>>

\* The same columns of an observation.
ObservationKey(row) ==
    <<row.admin0Pcode, row.admin1Pcode, row.admin2Pcode, row.admin0Name,
      row.admin1Name, row.admin2Name, row.adminLevel, row.assessmentType,
      row.operation, row.reportingDate, row.roundNumber, row.operationStatus>>

\* C14: no two aggregated records have the same group key, and every
\* observation, missing codes and names included, contributes to exactly one
\* record, the one with its key.
C14_OneRecordPerKey ==
    HapiDone =>
        LET result == hapi.result.result
            data == hapi.result.input
        IN /\ \A g, h \in DOMAIN result :
                  g # h => RecordKey(result[g]) # RecordKey(result[h])
           /\ \A i \in DOMAIN data :
                  /\ Cardinality({g \in DOMAIN result :
                                     i \in result[g].contributing}) = 1
                  /\ \A g \in DOMAIN result :
                         i \in result[g].contributing <=>
                             RecordKey(result[g]) = ObservationKey(data[i])

\* Three observations without admin-2 code in two records: the country-level
\* ones, without admin-1 code and names, together, the admin-1 one alone.
C14_Witness ==
    /\ HapiDone
    /\ Len(hapi.result.input) = 3
    /\ Len(hapi.result.result) = 2
    /\ hapi.result.result[1].contributing = {1, 3}
    /\ hapi.result.result[1].admin1Pcode = None
    /\ hapi.result.result[2].contributing = {2}
    /\ hapi.result.result[2].admin1Pcode = "HT01"

\* The observations of a set that are not flagged.
Unflagged(members) ==
    {i \in members : hapi.result.error[i] # "Duplicate row"}

\* C15: the population of an aggregated record is the sum over its
\* contributing observations, the ones flagged duplicate left out.
C15_SumWithoutDuplicates ==
    HapiDone =>
        \A g \in DOMAIN hapi.result.result :
            hapi.result.result[g].population =
                SumOf(hapi.result.input,
                      Unflagged(hapi.result.result[g].contributing))

\* C16: an aggregated record has the error "Duplicate row" exactly when one
\* of its contributing observations is flagged.
C16_FlagOfAnyContributor ==
    HapiDone =>
        \A g \in DOMAIN hapi.result.result :
            hapi.result.result[g].error = "Duplicate row" <=>
                Unflagged(hapi.result.result[g].contributing)
                    # hapi.result.result[g].contributing

\* The scenario: two observations, the same but for the populations 5 and 3.
IsPopulationScenario(data) ==
    /\ Len(data) = 2
    /\ data[1].numPresentIdpInd = 5
    /\ data[2] = [data[1] EXCEPT !.numPresentIdpInd = 3]

\* C17: in the scenario both observations are flagged, both are rows of the
\* output with the error "Duplicate row", and no total holds them.
C17_BothRowsInOutput ==
    (HapiDone /\ IsPopulationScenario(hapi.result.input)) =>
        /\ hapi.result.error = <<"Duplicate row", "Duplicate row">>
        /\ \E g, h \in DOMAIN hapi.result.rows :
              /\ g # h
              /\ hapi.result.rows[g].population = 5
              /\ hapi.result.rows[h].population = 3
              /\ hapi.result.rows[g].error = "Duplicate row"
              /\ hapi.result.rows[h].error = "Duplicate row"

\* The run's records with their admin level: the observations in Dtm, the
\* aggregated records in Pipeline.
Levels ==
    IF cls = "Dtm"
    THEN [k \in DOMAIN hapi.result.rows |-> hapi.result.input[k].adminLevel]
    ELSE [k \in DOMAIN hapi.result.rows |-> hapi.result.result[k].admin_level]

\* The admin fields and the warning of an output row are all v.
AdminFieldsAre(row, v) ==
    /\ row.admin1_code = v
    /\ row.admin1_name = v
    /\ row.admin2_code = v
    /\ row.admin2_name = v
    /\ row.warning = v

\* C18 as stated: for an admin-level-0 record the matcher is not called, no
\* diagnostic is registered, and the admin codes, names and the warning of
\* its row are the empty string.
C18_Level0EmptyStrings ==
    HapiDone =>
        \A k \in DOMAIN hapi.result.rows :
            Levels[k] = 0 =>
                /\ ~hapi.result.matched[k]
                /\ hapi.result.diagnostics[k] = <<>>
                /\ AdminFieldsAre(hapi.result.rows[k], "")

\* C18 amended: for an admin-level-0 record the matcher is not called and
\* no diagnostic is registered; the admin codes, names and the warning of
\* its row are the empty string in Pipeline and None, as the columns were
\* created, in Dtm.
C18_Level0Bypass ==
    HapiDone =>
        \A k \in DOMAIN hapi.result.rows :
            Levels[k] = 0 =>
                /\ ~hapi.result.matched[k]
                /\ hapi.result.diagnostics[k] = <<>>
                /\ AdminFieldsAre(hapi.result.rows[k],
                                  IF cls = "Dtm" THEN None ELSE "")

\* Dtm: a country-level observation left alone beside an admin-1 one that
\* was matched.
C18_Witness ==
    /\ HapiDone
    /\ cls = "Dtm"
    /\ Len(hapi.result.rows) = 2
    /\ Levels = <<0, 1>>
    /\ hapi.result.matched = <<FALSE, TRUE>>
    /\ hapi.result.rows[1].admin1_code = None
    /\ hapi.result.rows[2].admin1_code = "HT01"

\* The parsed reporting dates of the emitted records.
EmittedDates ==
    {parse_date(hapi.result.result[g].reportingDate) : g \in DOMAIN hapi.result.rows}

\* C19: the time period of the HAPI dataset is the least and the greatest
\* parsed reporting date of the emitted records, all of them emitted, and
\* starts no later than it ends.
C19_TimePeriodMinMax ==
    (HapiDone /\ Len(hapi.result.rows) > 0) =>
        /\ Len(hapi.result.rows) = Len(hapi.result.result)
        /\ hapi.result.time_period.startdate \in EmittedDates
        /\ hapi.result.time_period.enddate \in EmittedDates
        /\ \A d \in EmittedDates :
              /\ hapi.result.time_period.startdate <= d
              /\ d <= hapi.result.time_period.enddate
        /\ hapi.result.time_period.startdate <= hapi.result.time_period.enddate

\* Records of two days, the later one first in the observations.
C19_Witness ==
    /\ HapiDone
    /\ Len(hapi.result.input) = 2
    /\ hapi.result.input[1].reportingDate = "2024-01-02"
    /\ hapi.result.input[2].reportingDate = "2024-01-01"
    /\ hapi.result.time_period = [startdate |-> 20240101, enddate |-> 20240102]

AdminLevels == {admin_levels[k] : k \in DOMAIN admin_levels}

CountriesOf(countries) == {countries[k] : k \in DOMAIN countries}

\* The download of a country's admin level fails, or one of its rows has an
\* operation without a recorded status.
FetchFails(iso3, admin_level) == ~api.idps[<<iso3, admin_level>>].ok

StatusMissing(iso3, admin_level) ==
    /\ api.idps[<<iso3, admin_level>>].ok
    /\ \E i \in DOMAIN api.idps[<<iso3, admin_level>>].result :
          <<iso3, api.idps[<<iso3, admin_level>>].result[i].operation>>
              \notin DOMAIN api.operation_status

\* get_country_data gets as far as this admin level of the country.
Reaches(iso3, admin_level) ==
    /\ iso3 \in api.locations
    /\ \A lower \in AdminLevels :
          lower < admin_level =>
              ~FetchFails(iso3, lower) /\ ~StatusMissing(iso3, lower)

HasNoObservations(iso3, admin_level) ==
    /\ Reaches(iso3, admin_level)
    /\ api.idps[<<iso3, admin_level>>].ok
    /\ api.idps[<<iso3, admin_level>>].result = <<>>

\* The row of the API is among the returned ones, with its admin level.
ReturnedAt(country, admin_level, row) ==
    \E i \in DOMAIN country.result :
        /\ country.result[i].adminLevel = admin_level
        /\ [column \in DOMAIN row |-> country.result[i][column]] = row

SkipsEmptyLevel(country, iso3, admin_level) ==
    /\ \A i \in DOMAIN country.result : country.result[i].adminLevel # admin_level
    /\ \A i \in DOMAIN country.log :
          country.log[i].admin_level = admin_level =>
              country.log[i].logger = "warning"
    /\ country.raised # None =>
          \E other \in AdminLevels \ {admin_level} :
              FetchFails(iso3, other) \/ StatusMissing(iso3, other)
    /\ country.raised = None =>
          \A other \in AdminLevels \ {admin_level} :
              \A j \in DOMAIN api.idps[<<iso3, other>>].result :
                  ReturnedAt(country, other, api.idps[<<iso3, other>>].result[j])

\* C21: an admin level at which the country has no observations adds no
\* row, is logged as a warning and not as an error, raises nothing, and the
\* rows of the country's other admin levels are returned.
C21_EmptyLevelSkipped ==
    dataset.made =>
        \A iso3 \in CountriesOf(dataset.countries), admin_level \in AdminLevels :
            HasNoObservations(iso3, admin_level) =>
                SkipsEmptyLevel(get_country_data(api, iso3), iso3, admin_level)

\* Haiti has observations at admin levels 0 and 2 and none at level 1.
C21_Witness ==
    /\ dataset.made
    /\ dataset.raised = None
    /\ HasNoObservations("HTI", 1)
    /\ \E i \in DOMAIN dataset.countries_data :
          dataset.countries_data[i].adminLevel = 0
    /\ \E i \in DOMAIN dataset.countries_data :
          dataset.countries_data[i].adminLevel = 2
    /\ \A i \in DOMAIN dataset.countries_data :
          dataset.countries_data[i].adminLevel # 1

\* C25: a row whose operation has no recorded status is logged as a
\* warning and get_country_data returns without raising.
C25_MissingStatusWarned ==
    dataset.made =>
        \A iso3 \in CountriesOf(dataset.countries), admin_level \in AdminLevels :
            (Reaches(iso3, admin_level) /\ StatusMissing(iso3, admin_level)) =>
                /\ get_country_data(api, iso3).raised = None
                /\ \E i \in DOMAIN get_country_data(api, iso3).log :
                      get_country_data(api, iso3).log[i].logger = "warning"

\* The highest admin level at which one of the countries has observations.
LevelsWithData(countries) ==
    {admin_level \in AdminLevels :
        \E iso3 \in CountriesOf(countries) :
            /\ iso3 \in api.locations
            /\ api.idps[<<iso3, admin_level>>].ok
            /\ api.idps[<<iso3, admin_level>>].result # <<>>}

HighestOf(levels) ==
    IF levels = {} THEN 0
    ELSE CHOOSE highest \in levels : \A other \in levels : other <= highest

\* C24: Pipeline names the raw resource after the highest admin level at
\* which a requested country has observations, 0 when none has, and the
\* global file is global-iom-dtm-from-api-admin-0-to-2.csv when a country
\* has admin level 2 observations.
C24_FilenameOfHighestLevel ==
    (cls = "Pipeline" /\ dataset.made /\ dataset.filename # None) =>
        /\ dataset.filename =
              (IF Len(dataset.countries) > 1 THEN "global"
               ELSE IF dataset.countries[1] = "HTI" THEN "hti" ELSE "afg")
              \o "-iom-dtm-from-api-admin-0-to-"
              \o ToString(HighestOf(LevelsWithData(dataset.countries)))
              \o ".csv"
        /\ (Len(dataset.countries) > 1 /\ 2 \in LevelsWithData(dataset.countries)) =>
              dataset.filename = "global-iom-dtm-from-api-admin-0-to-2.csv"

\* The global file of a run in which only Afghanistan, the last country,
\* has admin level 2 observations.
C24_Witness ==
    /\ cls = "Pipeline"
    /\ dataset.made
    /\ dataset.raised = None
    /\ dataset.filename = "global-iom-dtm-from-api-admin-0-to-2.csv"
    /\ LevelsWithData(<<"HTI">>) = {0}
    /\ LevelsWithData(<<"AFG">>) = {2}

\* C27: generate_dataset assigns the stored observations when it is called
\* with more than one country and leaves them alone when called with one;
\* generate_hapi_dataset works on the stored observations.
C27_StoredBySeveralCountriesOnly ==
    [][/\ (dataset' # dataset /\ Len(dataset'.countries) = 1) =>
              global_data' = global_data
       /\ (dataset' # dataset /\ Len(dataset'.countries) > 1
           /\ dataset'.raised = None) =>
              global_data' = dataset'.countries_data
       /\ (hapi' # hapi /\ hapi'.run) =>
              /\ hapi'.result.input = global_data
              /\ global_data' = global_data]_vars

\* The last call was for Haiti alone, and the HAPI dataset is made of the
\* observations of the call for both countries.
C27_Witness ==
    /\ dataset.made
    /\ dataset.raised = None
    /\ dataset.countries = <<"HTI">>
    /\ dataset.countries_data # <<>>
    /\ global_data # <<>>
    /\ global_data # dataset.countries_data
    /\ hapi.run
    /\ hapi.result.input = global_data

\* The observation a QuickCharts row was taken from.
QcSource(row, observation) ==
    [column \in DOMAIN row |-> observation[column]] = row

QcCandidates(data) ==
    {i \in DOMAIN data : /\ data[i].admin1Pcode = None
                         /\ data[i].admin0Pcode \in qc_countries}

SameQcGroup(a, b) ==
    /\ a.admin0Pcode = b.admin0Pcode
    /\ a.operation = b.operation
    /\ a.yearReportingDate = b.yearReportingDate

QuickChartsLatest(rows, data) ==
    /\ \A k \in DOMAIN rows :
          \E i \in QcCandidates(data) : QcSource(rows[k], data[i])
    /\ \A i \in QcCandidates(data) :
          /\ Cardinality({k \in DOMAIN rows : SameQcGroup(rows[k], data[i])}) = 1
          /\ \A k \in DOMAIN rows :
                SameQcGroup(rows[k], data[i]) =>
                    parse_date(rows[k].reportingDate)
                        >= parse_date(data[i].reportingDate)

\* C28: for several countries the QuickCharts rows are country-level
\* observations of the QuickCharts countries, one per country, operation
\* and reporting year, the one of the latest reporting date; for one
\* country there is no QuickCharts resource.
C28_QuickChartsLatestPerGroup ==
    (dataset.made /\ dataset.raised = None) =>
        IF Len(dataset.countries) > 1
        THEN /\ dataset.quickcharts.generated
             /\ QuickChartsLatest(dataset.quickcharts.rows, dataset.countries_data)
        ELSE ~dataset.quickcharts.generated

\* Two reports of Haiti's earthquake operation, the earlier one first, an
\* admin-1 observation and one of Afghanistan: one QuickCharts row, of the
\* later report.
C28_Witness ==
    /\ dataset.made
    /\ dataset.raised = None
    /\ Len(dataset.countries) > 1
    /\ \E i, j \in DOMAIN dataset.countries_data :
          /\ i < j
          /\ dataset.countries_data[i].adminLevel = 0
          /\ dataset.countries_data[j].adminLevel = 0
          /\ SameQcGroup(dataset.countries_data[i], dataset.countries_data[j])
          /\ dataset.countries_data[i].reportingDate = "2024-01-01"
          /\ dataset.countries_data[j].reportingDate = "2024-01-02"
    /\ \E i \in DOMAIN dataset.countries_data :
          dataset.countries_data[i].admin1Pcode # None
    /\ \E i \in DOMAIN dataset.countries_data :
          dataset.countries_data[i].admin0Pcode = "AFG"
    /\ Len(dataset.quickcharts.rows) = 1
    /\ dataset.quickcharts.rows[1].reportingDate = "2024-01-02"

(***************************************************************************)
(* Claims about main, checked under SpecMain.                              *)
(***************************************************************************)
\* C22: a failed download of one country's admin level does not end the
\* run: main is never left by the exception of the download.
C22_FetchFailureSkipped == main.started => main.raised # "DownloadError"

CallsOf(name) == {k \in DOMAIN main.calls : main.calls[k].call = name}

\* C26: generate_hapi_dataset is called after the global dataset is
\* generated and created in HDX, once when the API lists more than one
\* country and never when it lists one, and before every per-country
\* dataset is generated.
C26_HapiAfterGlobalBeforeCountries ==
    main.started =>
        /\ Cardinality(CallsOf("generate_hapi_dataset")) <= 1
        /\ Len(api.countries) = 1 => CallsOf("generate_hapi_dataset") = {}
        /\ (Len(api.countries) > 1 /\ main.at = "completed") =>
              Cardinality(CallsOf("generate_hapi_dataset")) = 1
        /\ \A h \in CallsOf("generate_hapi_dataset") :
              \E g \in CallsOf("generate_dataset"), c \in CallsOf("create_in_hdx") :
                  /\ g < c
                  /\ c < h
                  /\ main.calls[g].dataset = "global"
                  /\ main.calls[c].dataset = "global"
        /\ \A g \in CallsOf("generate_dataset") :
              (Len(api.countries) > 1 /\ main.calls[g].dataset # "global") =>
                  \E h \in CallsOf("generate_hapi_dataset") : h < g

\* A completed run for two countries: seven calls, the HAPI dataset third.
C26_Witness ==
    /\ main.started
    /\ main.at = "completed"
    /\ Len(api.countries) > 1
    /\ main.calls[3].call = "generate_hapi_dataset"
    /\ \E g \in CallsOf("generate_dataset") : main.calls[g].dataset = "afg"

(***************************************************************************)
(* Claims about the gazetteers and the parent of a resolved code, checked  *)
(* under Spec and SpecAdmin.                                               *)
(***************************************************************************)
\* C23 (Spec): get_pcodes appends the gazetteer of admin level 1 and then
\* the one of admin level 2, generate_hapi_dataset has loaded both when it
\* matches rows, and _admins[0] and _admins[1] are the level 1 and level 2
\* gazetteers however often it has run.
C23_Level1ThenLevel2 ==
    /\ \A k \in DOMAIN _admins :
          _admins[k].admin_level = IF k % 2 = 1 THEN 1 ELSE 2
    /\ hapi.run =>
          /\ Len(_admins) >= 2
          /\ PyIndex(_admins, 0).admin_level = 1
          /\ PyIndex(_admins, 1).admin_level = 2

\* generate_hapi_dataset has run twice and matched rows.
C23_Witness ==
    /\ Len(_admins) = 2 * MaxPcodeLoads
    /\ HapiDone
    /\ \E i \in DOMAIN global_data : global_data[i].adminLevel > 0

IsResolved == call.result.outcome \in {"DirectHit", "LengthMatch", "NameMatch"}

\* The gazetteer row of an admin-2 code names the parent and the admin-1
\* row of the parent names it.
ParentInGazetteer(admin2_code, admin1_code, admin1_name) ==
    /\ \E k \in DOMAIN Admin2Rows :
          /\ Admin2Rows[k].pcode = admin2_code
          /\ Admin2Rows[k].parent = admin1_code
    /\ \E k \in DOMAIN Admin1Rows :
          /\ Admin1Rows[k].pcode = admin1_code
          /\ Admin1Rows[k].name = admin1_name

\* C29 (SpecAdmin): a resolved admin-2 row gets the gazetteer parent of its
\* admin2_code as admin1_code and that parent's name as admin1_name,
\* whatever admin1Pcode the provider sent; an admin-1 row keeps admin2_code
\* and admin2_name unset.
C29_ParentFromGazetteer ==
    HasReturned =>
        /\ (call.args.admin_level = 2 /\ IsResolved) =>
              ParentInGazetteer(call.result.admin_info.admin2_code,
                                call.result.admin_info.admin1_code,
                                call.result.admin_info.admin1_name)
        /\ call.args.admin_level = 1 =>
              /\ call.result.admin_info.admin2_code = None
              /\ call.result.admin_info.admin2_name = None

\* A resolved admin-2 row whose parent is not the admin1Pcode sent with it.
C29_Witness ==
    /\ HasReturned
    /\ call.args.admin_level = 2
    /\ IsResolved
    /\ call.args.parent_pcode # None
    /\ call.result.admin_info.admin1_code # call.args.parent_pcode
    /\ call.result.admin_info.admin1_code # None

\* C30 (SpecAdmin): every get_admin_info call ends in one of the outcomes
\* Missing, DirectHit, LengthMatch, NameMatch and Unresolved, after the
\* direct hit, the length transform and the name lookup were tried in this
\* order as far as needed, in at most 4 steps.
C30_FiveOutcomesInOrder ==
    call.made =>
        /\ call.result.outcome \in
              {"Missing", "DirectHit", "LengthMatch", "NameMatch", "Unresolved"}
        /\ call.result.stages = SubSeq(NameStages, 1, Len(call.result.stages))
        /\ Len(call.result.stages) + 1 <= 4

====
